---- MODULE Spec2Model ----
(***************************************************************************)
(* Ingress relation libraries of traefik-k8s-operator:                     *)
(*   lib/charms/traefik_k8s/v1/ingress_per_unit.py  (per-unit variant)     *)
(*   lib/charms/traefik_k8s/v0/ingress.py           (per-app variant)      *)
(* The relation databags are the shared store; every event handler and    *)
(* every public operation of the libraries is one atomic action.          *)
(***************************************************************************)
EXTENDS Integers, Sequences, FiniteSets, TLC

VARIABLES
    variant,        \* which library the observed deployment uses: "unit" | "app"
    DO_VALIDATION,  \* ingress_per_unit.py: jsonschema importable or not
    listen_to,      \* IngressPerUnitRequirer.listen_to
    port,           \* the port the requirers were constructed with (NoPort: none)
    leader,         \* the provider application's leader unit
    related,        \* the requirer's relation exists (self.relation is not None)
    ingress,        \* per relation: provider app databag, key "ingress" (YAML text)
    unit_data,      \* per relation, per remote unit: the requirer unit's databag
    app_name,       \* per relation: remote application identity the provider sees
    current_urls,   \* IngressPerUnitRequirer._stored.current_urls (this unit)
    track,          \* history switch: record what each handler run read
    seen,           \* provider data read by the previous _handle_relation run
    told,           \* (history) the URL of this unit's latest ready_for_unit,
                    \* Nothing before the first one and after a revoked_for_unit
    observed,       \* history: this unit's URL as last read by a handler run
    published,      \* history: identity -> URL of its most recent publish_url
    emitted,        \* notifications emitted by the most recent handler run
    writes,         \* databag writes made by the most recent handler run
    last,           \* the most recent operation, how it ended, and (history) the
                    \* stored mapping a handler run started from
    app_data,       \* per-app: provider app databag (keys "data", "_supported_versions")
    req_app_data,   \* per-app: requirer app databag, key "data"
    req_leader,     \* the requirer application's leader unit
    current_url,    \* IngressPerAppRequirer._stored.current_url (this unit)
    seen_app        \* provider data read by its previous _handle_relation run

unitVars == <<DO_VALIDATION, listen_to, ingress, unit_data, app_name, current_urls, seen,
              told, observed, published>>
appVars == <<app_data, req_app_data, req_leader, current_url, seen_app>>
vars == <<variant, track, port, leader, related, emitted, writes, last, unitVars,
          appVars>>

----------------------------------------------------------------------------
(* Bounds of the model *)

NumUrls == 2     \* distinct URL values the provider may publish
NumModels == 2   \* distinct model names remote units may publish

Urls == {"http://proxy/" \o ToString(i) : i \in 1..NumUrls}
Models == {"m" \o ToString(i) : i \in 1..NumModels}

(* Units of the requirer application, in the key order yaml.safe_dump uses *)
UnitOrder == <<"app/0", "app/1">>
UnitNames == {UnitOrder[i] : i \in 1..Len(UnitOrder)}
this_unit_name == "app/0"
ProviderUnits == {"traefik/0", "traefik/1"}
Rels == {1, 2}
TheRel == 1            \* the requirer's single relation (limit: 1)
ThisModel == "m1"      \* self.model.name of the requirer
Ports == {80, 81}
NoPort == 0            \* port=None in the constructor
Fqdn == "fqdn.local"   \* socket.getfqdn()

(* Python values *)
None == "<None>"
NoUrl == "<no url>"                         \* an entry without a "url" key
EmptyUrl == ""                              \* the empty string, a URL the schema admits
Nothing == "<nothing>"                      \* history: no notification stands
Missing == "<missing>"                      \* a key the databag does not hold
EmptyMap == [k \in {} |-> ""]
NoneMap == [k \in {None} |-> None]          \* current_urls=None
NoText == <<>>                              \* key absent from the databag

Put(m, k, v) == [x \in DOMAIN m \cup {k} |-> IF x = k THEN v ELSE m[x]]
Get(m, k) == IF k \in DOMAIN m THEN m[k] ELSE None
(* bool(v) of None or a string: None and the empty string are false *)
bool(v) == v # None /\ v # ""

----------------------------------------------------------------------------
(* YAML text of the provider's per-unit URL mapping: a sequence of lines,  *)
(* each an indentation, a key and a scalar.                                *)

Line(i, k, v) == [ind |-> i, key |-> k, val |-> v]

(* an encoder that drops the url of an entry *)
EntryLines_nourl(k, e) == <<Line(0, k, "{}")>>

EntryLines(k, e) ==
    IF e = NoUrl THEN <<Line(0, k, "{}")>>
    ELSE <<Line(0, k, ""), Line(2, "url", e)>>

RECURSIVE DumpFrom(_, _)
DumpFrom(m, i) ==
    IF i > Len(UnitOrder) THEN <<>>
    ELSE (IF UnitOrder[i] \in DOMAIN m THEN EntryLines(UnitOrder[i], m[UnitOrder[i]])
          ELSE <<>>) \o DumpFrom(m, i + 1)

safe_dump(m) == IF DOMAIN m = {} THEN <<Line(0, "", "{}")>> ELSE DumpFrom(m, 1)

RECURSIVE LoadLines(_, _, _)
LoadLines(text, i, m) ==
    IF i > Len(text) THEN m
    ELSE IF text[i].val = "" /\ i < Len(text) /\ text[i + 1].ind = 2
                /\ text[i + 1].key = "url"
         THEN LoadLines(text, i + 2, Put(m, text[i].key, text[i + 1].val))
         ELSE LoadLines(text, i + 1, Put(m, text[i].key, NoUrl))

safe_load(text) ==
    IF Len(text) = 1 /\ text[1].key = ""
    THEN [kind |-> IF text[1].val = "{}" THEN "mapping" ELSE "scalar", m |-> EmptyMap]
    ELSE [kind |-> "mapping", m |-> LoadLines(text, 1, EmptyMap)]

(* INGRESS_PROVIDES_APP_SCHEMA on {"ingress": data} *)
ProvidesSchemaOk(data) ==
    /\ data.kind = "mapping"
    /\ \A k \in DOMAIN data.m : data.m[k] # NoUrl /\ data.m[k] # None

(* a _validate_data that never raises *)
validate_off(data) == FALSE

(* _validate_data(data, INGRESS_PROVIDES_APP_SCHEMA) raises *)
_validate_data(data) == DO_VALIDATION /\ ~ProvidesSchemaOk(data)

(* Values a writer other than this library may leave under "ingress" *)
CorruptTexts ==
    { <<Line(0, "", "foo")>>,
      <<Line(0, "app/1", "{}")>>,
      <<Line(0, "app/0", ""), Line(2, "url", "http://proxy/1"), Line(0, "app/1", "{}")>> }

----------------------------------------------------------------------------
(* Notifications and bookkeeping *)

Note(kind, unit, url) == [kind |-> kind, unit |-> unit, url |-> url]
Op(op, by_leader, result) ==
    [op |-> op, by_leader |-> by_leader, result |-> result, had_url |-> FALSE,
     prev |-> EmptyMap]
Write(segment, owner, by, by_leader) ==
    [segment |-> segment, owner |-> owner, by |-> by, by_leader |-> by_leader]

Count(seq, kind) == Cardinality({i \in 1..Len(seq) : seq[i].kind = kind})

RECURSIVE SeqOver(_, _, _, _)
(* one notification per member of set S, visiting S in UnitOrder *)
SeqOver(S, i, kind, m) ==
    IF i > Len(UnitOrder) THEN <<>>
    ELSE (IF UnitOrder[i] \in S
          THEN <<Note(kind, IF kind = "ready" THEN UnitOrder[i] ELSE "",
                      IF kind = "ready" THEN m[UnitOrder[i]] ELSE "")>>
          ELSE <<>>) \o SeqOver(S, i + 1, kind, m)

EmptyDatabag == [model |-> Missing, name |-> Missing, host |-> Missing, port |-> Missing]

Ok(v) == [exc |-> "", val |-> v]
Exc(e) == [exc |-> e, val |-> EmptyMap]

----------------------------------------------------------------------------
(* IngressPerUnitProvider: write side *)

(* self.unit.is_leader() on provider unit p *)
is_leader(p) == leader = p

(* a publish_url/wipe_ingress_data without the assertion *)
assert_skipped(p) == TRUE

(* assert self.unit.is_leader(), 'only leaders can do this' *)
assert_leader(p) == is_leader(p)

(* history value: the store holds text this library did not write *)
Unknown == [k \in {"<unknown>"} |-> None]

(* a publish_url that starts from an empty mapping every time *)
publish_url_data_fresh(r) == [kind |-> "mapping", m |-> EmptyMap]

(* the mapping publish_url starts from *)
publish_url_data(r) ==
    IF ingress[r] # NoText THEN safe_load(ingress[r])
    ELSE [kind |-> "mapping", m |-> EmptyMap]

(* how publish_url ends: assertion, early return, TypeError on item *)
(* assignment to a non-mapping (validation off), or the write        *)
publish_url_result(r, p) ==
    IF ~assert_leader(p) THEN "AssertionError"
    ELSE IF _validate_data(publish_url_data(r)) THEN "return"
    ELSE IF publish_url_data(r).kind # "mapping" THEN "TypeError"
    ELSE "ok"

IPU_publish_url(r, p, unit_name, url) ==
    /\ variant = "unit"
    /\ related[r]
    /\ last' = Op("publish_url", is_leader(p), publish_url_result(r, p))
    /\ ingress' = IF publish_url_result(r, p) = "ok"
                  THEN [ingress EXCEPT ![r] =
                            safe_dump(Put(publish_url_data(r).m, unit_name, url))]
                  ELSE ingress
    /\ published' = IF r = TheRel /\ is_leader(p) /\ published # Unknown
                    THEN Put(published, unit_name, url) ELSE published
    /\ emitted' = <<>>
    /\ writes' = {}
    /\ UNCHANGED <<variant, track, DO_VALIDATION, listen_to, port, leader, related,
                   unit_data, app_name, current_urls, seen, told, observed, appVars>>

(* a wipe_ingress_data that refuses every caller *)
wipe_refused(p) == "AssertionError"

(* wipe_ingress_data ends in the assertion or deletes the key *)
wipe_result(p) == IF assert_leader(p) THEN "ok" ELSE "AssertionError"

IPU_wipe_ingress_data(r, p) ==
    /\ variant = "unit"
    /\ related[r]
    /\ last' = [Op("wipe_ingress_data", is_leader(p), wipe_result(p))
                    EXCEPT !.had_url = r = TheRel /\ this_unit_name \in DOMAIN published]
    /\ ingress' = IF wipe_result(p) = "ok" THEN [ingress EXCEPT ![r] = NoText] ELSE ingress
    /\ published' = IF r = TheRel /\ is_leader(p) THEN EmptyMap ELSE published
    /\ emitted' = <<>>
    /\ writes' = {}
    /\ UNCHANGED <<variant, track, DO_VALIDATION, listen_to, port, leader, related,
                   unit_data, app_name, current_urls, seen, told, observed, appVars>>

----------------------------------------------------------------------------
(* IngressPerUnitProvider: read side *)

(* _IngressPerUnitBase.is_ready(relation): view is the remote application  *)
(* identity the hook sees: "known", "empty" (no name) or "none"            *)
base_is_ready(view) == view = "known"

(* the remote units of relation r: the second relation is to an            *)
(* application of one unit                                                 *)
RemoteUnits(r) == IF r = TheRel THEN UnitNames ELSE {this_unit_name}

(* the record provide_ingress_requirements of unit u in model m writes *)
requirements_of(u, m, p) ==
    [model |-> m, name |-> u, host |-> Fqdn,
     port |-> IF p = NoPort THEN "None" ELSE ToString(p)]

(* the hosts a requirer may name; None stands for host=None *)
Hosts == {"10.0.0.1"}

(* the record provide_ingress_requirements(host=h, port=p) of unit u in   *)
(* model m writes                                                         *)
provide_ingress_requirements_data(u, m, h, p) ==
    [model |-> m, name |-> u, host |-> IF h = None THEN Fqdn ELSE h,
     port |-> IF p = NoPort THEN "None" ELSE ToString(p)]

(* {k: databag[k] for k in ('port', 'host', 'model', 'name')} finds every key *)
HasAll(bag) == \A k \in {"port", "host", "model", "name"} : bag[k] # Missing

(* int(remote_data['port']) succeeds *)
IsInt(text) == \E n \in Ports : ToString(n) = text
(* a conversion that reads every port text as the same number *)
int_any(text) == CHOOSE n \in Ports : TRUE
int(text) == CHOOSE n \in Ports : ToString(n) = text

(* _get_requirer_unit_data: KeyError for a missing key; the four values    *)
(* are databag strings, so INGRESS_REQUIRES_UNIT_SCHEMA accepts them;      *)
(* ValueError when the port text is no integer                             *)
_get_requirer_unit_data(bag) ==
    IF ~HasAll(bag) THEN [exc |-> "KeyError", val |-> bag]
    ELSE IF ~IsInt(bag.port) THEN [exc |-> "ValueError", val |-> bag]
    ELSE [exc |-> "", val |-> [bag EXCEPT !.port = int(bag.port)]]

(* get_data(relation, unit) *)
IPU_get_data(bag) == _get_requirer_unit_data(bag)

(* _requirer_units_data: KeyError skips the unit, ValueError is not caught *)
_requirer_units_data(name, units, bags) ==
    IF name # "known" THEN Ok(EmptyMap)
    ELSE IF \E u \in units : _get_requirer_unit_data(bags[u]).exc = "ValueError"
         THEN Exc("ValueError")
    ELSE Ok([u \in {v \in units : _get_requirer_unit_data(bags[v]).exc = ""} |->
                _get_requirer_unit_data(bags[u]).val])

(* IngressPerUnitProvider.is_ready(relation): any exception reads as False *)
provider_is_ready(name, units, bags) ==
    /\ base_is_ready(name)
    /\ _requirer_units_data(name, units, bags).exc = ""
    /\ DOMAIN _requirer_units_data(name, units, bags).val # {}

(* IngressPerUnitProvider.is_ready(): any of self.relations *)
provider_is_ready_any ==
    \E r \in Rels : related[r] /\ provider_is_ready(app_name[r], RemoteUnits(r), unit_data[r])

(* the loop of validate over the records, in the order the runtime lists   *)
(* the units                                                               *)
RECURSIVE validate_from(_, _, _, _)
validate_from(data, order, i, expected_model) ==
    IF i > Len(order) THEN "return"
    ELSE IF order[i] \notin DOMAIN data THEN validate_from(data, order, i + 1, expected_model)
    ELSE IF expected_model = None
         THEN validate_from(data, order, i + 1, data[order[i]].model)
    ELSE IF expected_model # data[order[i]].model THEN "RelationDataMismatchError"
    ELSE validate_from(data, order, i + 1, expected_model)

(* IngressPerUnitProvider.validate(relation): how it ends *)
validate(name, units, bags, order) ==
    IF _requirer_units_data(name, units, bags).exc # ""
    THEN _requirer_units_data(name, units, bags).exc
    ELSE validate_from(_requirer_units_data(name, units, bags).val, order, 1, None)

(* relation.data[self.app].get("data"): the library writes the key      *)
(* "ingress" and never the key "data"                                    *)
provider_data_key(r) == NoText

(* _provider_app_data(relation) on provider unit p *)
_provider_app_data(r, p) ==
    IF app_name[r] # "known" THEN EmptyMap
    ELSE IF ~is_leader(p) THEN EmptyMap
    ELSE IF provider_data_key(r) = NoText THEN EmptyMap
    ELSE safe_load(provider_data_key(r)).m

(* results.update(provider_app_data) *)
Update(results, data) ==
    [k \in DOMAIN results \cup DOMAIN data |->
        IF k \in DOMAIN data THEN data[k] ELSE results[k]]

(* proxied_endpoints on provider unit p: over self.relations *)
RECURSIVE proxied_from(_, _)
proxied_from(r, p) ==
    IF r \notin Rels THEN EmptyMap
    ELSE Update(IF related[r] THEN _provider_app_data(r, p) ELSE EmptyMap,
                proxied_from(r + 1, p))
proxied_endpoints(p) == proxied_from(TheRel, p)

(* the orders in which relation.units may list the units *)
Orders == {UnitOrder, <<UnitOrder[2], UnitOrder[1]>>}

----------------------------------------------------------------------------
(* IngressPerUnitRequirer (the instance of unit this_unit_name) *)

(* urls; view is the remote application identity the hook sees:        *)
(* "known", "empty" (no name) or "none" (relation.app is None)         *)
urls(view) ==
    IF ~related[TheRel] THEN Ok(EmptyMap)
    ELSE IF view = "none" THEN Exc("AttributeError")
    ELSE IF view = "empty" THEN Ok(EmptyMap)
    ELSE IF ingress[TheRel] = NoText THEN Ok(EmptyMap)
    ELSE IF _validate_data(safe_load(ingress[TheRel])) THEN Exc("DataValidationError")
    ELSE IF safe_load(ingress[TheRel]).kind # "mapping" THEN Exc("AttributeError")
    ELSE IF \E k \in DOMAIN safe_load(ingress[TheRel]).m :
                safe_load(ingress[TheRel]).m[k] = NoUrl THEN Exc("KeyError")
    ELSE Ok(safe_load(ingress[TheRel]).m)

(* url: the entry of this unit, None when there is none *)
url(view) ==
    IF urls(view).exc # "" THEN [exc |-> urls(view).exc, val |-> None]
    ELSE IF urls(view).val = EmptyMap THEN [exc |-> "", val |-> None]
    ELSE [exc |-> "", val |-> Get(urls(view).val, this_unit_name)]

(* IngressPerUnitRequirer.is_ready(): a value, or the exception url raises *)
IPU_is_ready(view) ==
    IF ~related[TheRel] THEN [exc |-> "", val |-> FALSE]
    ELSE IF ~base_is_ready(view) THEN [exc |-> "", val |-> FALSE]
    ELSE [exc |-> url(view).exc, val |-> url(view).exc = "" /\ bool(url(view).val)]

(* a handler that keeps no record of the mapping it saw *)
previous_urls_forgotten == EmptyMap
(* the diff of _handle_relation *)
previous_urls == IF current_urls = NoneMap THEN EmptyMap ELSE current_urls
(* a diff that takes every previous key for removed *)
removed_all(prev, cur) == DOMAIN prev
(* a diff that finds nothing removed *)
removed_none(prev, cur) == {}
removed(prev, cur) == DOMAIN prev \ DOMAIN cur
(* a diff that takes every published entry for changed *)
changed_always(prev, cur) == DOMAIN cur
changed(prev, cur) == {a \in DOMAIN cur : cur[a] # Get(prev, a)}

(* an 'only-this-unit' scope that announces this unit's URL whenever present *)
for_unit_events_present(prev, cur) ==
    (IF this_unit_name \in DOMAIN cur
     THEN <<Note("ready_for_unit", "", cur[this_unit_name])>> ELSE <<>>)
    \o (IF this_unit_name \in removed(prev, cur)
        THEN <<Note("revoked_for_unit", "", "")>> ELSE <<>>)

(* notifications of the 'only-this-unit' scope *)
for_unit_events(prev, cur) ==
    (IF this_unit_name \in changed(prev, cur)
     THEN <<Note("ready_for_unit", "", cur[this_unit_name])>> ELSE <<>>)
    \o (IF this_unit_name \in removed(prev, cur)
        THEN <<Note("revoked_for_unit", "", "")>> ELSE <<>>)

(* an 'all-units' scope that leaves this unit to the 'only-this-unit' scope *)
all_units_events_others(prev, cur) ==
    SeqOver(changed(prev, cur) \ {this_unit_name}, 1, "ready", cur)
    \o SeqOver(removed(prev, cur) \ {this_unit_name}, 1, "revoked", cur)

(* notifications of the 'all-units' scope *)
all_units_events(prev, cur) ==
    SeqOver(changed(prev, cur), 1, "ready", cur)
    \o SeqOver(removed(prev, cur), 1, "revoked", cur)

(* a handler that ignores listen_to and serves both scopes *)
handle_relation_events_unscoped(prev, cur) ==
    for_unit_events(prev, cur) \o all_units_events(prev, cur)

(* the notifications of _handle_relation, by listen_to *)
handle_relation_events(prev, cur) ==
    (IF listen_to \in {"only-this-unit", "both"} THEN for_unit_events(prev, cur) ELSE <<>>)
    \o (IF listen_to \in {"all-units", "both"} THEN all_units_events(prev, cur) ELSE <<>>)

(* provide_ingress_requirements(host=None, port=p): the record written *)
requirements(p) ==
    [model |-> ThisModel, name |-> this_unit_name, host |-> Fqdn,
     port |-> IF p = NoPort THEN "None" ELSE ToString(p)]

(* self._auto_data = host, port if port else None: a tuple, always truthy *)
IPU_auto_data == TRUE

(* _publish_auto_data: the unit databag after it, and the writes it makes *)
IPU_publish_auto_data(bags) ==
    IF IPU_auto_data THEN [bags EXCEPT ![TheRel][this_unit_name] = requirements(port)]
    ELSE bags
IPU_auto_writes ==
    IF IPU_auto_data THEN {Write("unit", this_unit_name, this_unit_name, FALSE)} ELSE {}

(* what a handler run read of the provider's data *)
Unread == <<Line(0, "", "<unread>")>>
Read(view) ==
    IF ~track THEN Unread
    ELSE IF view = "known" THEN ingress[TheRel]
    ELSE IF view = "empty" THEN NoText
    ELSE Unread

(* what this unit's charm has been told after the notifications seq: a   *)
(* ready_for_unit leaves its URL, a revoked_for_unit leaves Nothing       *)
RECURSIVE ToldAfter(_, _, _)
ToldAfter(t, seq, i) ==
    IF i > Len(seq) THEN t
    ELSE ToldAfter(IF seq[i].kind = "ready_for_unit" THEN seq[i].url
                   ELSE IF seq[i].kind = "revoked_for_unit" THEN Nothing
                   ELSE t, seq, i + 1)
Told(seq) == IF track THEN ToldAfter(told, seq, 1) ELSE told

(* the body of _handle_relation; the relation is there *)
IPU_handle_relation_body(op, view) ==
    /\ seen' = Read(view)
    /\ IF urls(view).exc # ""
       THEN /\ last' = Op(op, FALSE, urls(view).exc)
            /\ emitted' = <<>>
            /\ writes' = {}
            /\ UNCHANGED <<current_urls, observed, told>>
       ELSE /\ last' = [Op(op, FALSE, "ok")
                            EXCEPT !.prev = IF track THEN previous_urls ELSE EmptyMap]
            /\ observed' = Get(urls(view).val, this_unit_name)
            /\ emitted' = handle_relation_events(previous_urls, urls(view).val)
            /\ told' = Told(handle_relation_events(previous_urls, urls(view).val))
            /\ current_urls' = urls(view).val
            /\ writes' = IPU_auto_writes

NoUnitData == [u \in UnitNames |-> EmptyDatabag]

(* relation-created: the runtime establishes the relation, then the hook runs *)
IPU_relation_created ==
    /\ variant = "unit"
    /\ ~related[TheRel]
    /\ related' = [related EXCEPT ![TheRel] = TRUE]
    /\ seen' = IF track THEN NoText ELSE Unread
    /\ last' = Op("relation_created", FALSE, "ok")
    /\ emitted' = handle_relation_events(previous_urls, EmptyMap)
    /\ told' = Told(handle_relation_events(previous_urls, EmptyMap))
    /\ current_urls' = EmptyMap
    /\ observed' = None
    /\ unit_data' = IPU_publish_auto_data(unit_data)
    /\ writes' = IPU_auto_writes
    /\ UNCHANGED <<variant, track, DO_VALIDATION, listen_to, port, leader, ingress, app_name,
                   published, appVars>>

(* relation-joined and relation-changed *)
IPU_relation_changed ==
    /\ variant = "unit"
    /\ related[TheRel]
    /\ IPU_handle_relation_body("relation_changed", "known")
    /\ unit_data' = IF urls("known").exc = "" THEN IPU_publish_auto_data(unit_data)
                    ELSE unit_data
    /\ UNCHANGED <<variant, track, DO_VALIDATION, listen_to, port, leader, related, ingress,
                   app_name, published, appVars>>

(* relation-broken: _handle_relation runs in the hook, where the remote   *)
(* application identity may be unknown; the runtime then drops the        *)
(* relation and its databags                                              *)
IPU_relation_broken(view) ==
    /\ variant = "unit"
    /\ related[TheRel]
    /\ IPU_handle_relation_body("relation_broken", view)
    /\ related' = [related EXCEPT ![TheRel] = FALSE]
    /\ ingress' = [ingress EXCEPT ![TheRel] = NoText]
    /\ unit_data' = [unit_data EXCEPT ![TheRel] = NoUnitData]
    /\ published' = EmptyMap
    /\ UNCHANGED <<variant, track, DO_VALIDATION, listen_to, port, leader, app_name, appVars>>

(* leader-elected and upgrade-charm on the requirer unit *)
IPU_handle_upgrade_or_leader ==
    /\ variant = "unit"
    /\ last' = Op("upgrade_or_leader", FALSE, "ok")
    /\ emitted' = <<>>
    /\ unit_data' = IF related[TheRel] THEN IPU_publish_auto_data(unit_data) ELSE unit_data
    /\ writes' = IF related[TheRel] THEN IPU_auto_writes ELSE {}
    /\ UNCHANGED <<variant, track, DO_VALIDATION, listen_to, port, leader, related, ingress,
                   app_name, current_urls, seen, told, observed, published, appVars>>

----------------------------------------------------------------------------
(* Per-app variant (v0/ingress.py).  The pydantic models are read as their *)
(* type comments declare them: ProviderData.ingress is JSON text holding   *)
(* a ProviderIngressData.                                                  *)

(* the text from which ProviderData(ingress=text) reads the URL u: the     *)
(* JSON object with the single field url                                   *)
ProviderData(u) == <<"{", "url", ":", u, "}">>

(* what a provider that writes this encoding leaves under "data" *)
WireTexts == {ProviderData(u) : u \in Urls}

(* ProviderData(ingress=text).ingress.url, or pydantic.ValidationError *)
ProviderData_url(text) ==
    IF Len(text) = 5 /\ text[1] = "{" /\ text[2] = "url" /\ text[3] = ":" /\ text[5] = "}"
    THEN [exc |-> "", val |-> text[4]]
    ELSE [exc |-> "ValidationError", val |-> None]

CorruptJson == { <<"{", "}">>, <<"foo">> }

(* RequirerData(model, name, host, port).json(): the validator of model,  *)
(* name and host returns nothing, so the three fields come out null       *)
RequirerData_json(p) ==
    <<"{", "model", "null", "name", "null", "host", "null", "port", ToString(p), "}">>

(* a decoder that takes the stored JSON text for the record it holds *)
RequirerData_parse_raw(text) == [exc |-> "", val |-> "RequirerData"]

(* RequirerData.parse_obj(text): a str is no dict, so it does not validate *)
RequirerData_parse_obj(text) == [exc |-> "ValidationError", val |-> None]

(* the runtime lets only the leader write an application databag *)
app_write_result(is_ldr) == IF is_ldr THEN "ok" ELSE "RelationDataError"

(* the runtime takes only strings as databag values *)
value_write_result(is_str) == IF is_str THEN "ok" ELSE "RelationDataError"

(* IngressPerAppProvider.publish_url: no leadership check of its own, and  *)
(* the value it assigns is the ProviderData object, not its JSON text      *)
IPA_publish_url_result(p) ==
    IF app_write_result(is_leader(p)) # "ok" THEN app_write_result(is_leader(p))
    ELSE value_write_result(FALSE)

IPA_publish_url(p, u) ==
    /\ variant = "app"
    /\ related[TheRel]
    /\ last' = Op("publish_url", is_leader(p), IPA_publish_url_result(p))
    /\ app_data' = app_data  \* the write is refused, whoever calls
    /\ emitted' = <<>>
    /\ writes' = {}
    /\ UNCHANGED <<variant, track, port, leader, related, unitVars, req_app_data, req_leader,
                   current_url, seen_app>>

(* IngressPerAppProvider.wipe_ingress_data: no leadership check of its own *)
IPA_wipe_result(p) == app_write_result(is_leader(p))

IPA_wipe_ingress_data(p) ==
    /\ variant = "app"
    /\ related[TheRel]
    /\ last' = Op("wipe_ingress_data", is_leader(p), IPA_wipe_result(p))
    /\ app_data' = IF IPA_wipe_result(p) = "ok"
                   THEN [app_data EXCEPT !.data = NoText] ELSE app_data
    /\ emitted' = <<>>
    /\ writes' = {}
    /\ UNCHANGED <<variant, track, port, leader, related, unitVars, req_app_data, req_leader,
                   current_url, seen_app>>

(* IngressPerAppProvider._get_requirer_data / is_ready(relation) *)
IPA_get_requirer_data ==
    IF req_app_data = NoText THEN [exc |-> "", val |-> None]
    ELSE RequirerData_parse_obj(req_app_data)

IPA_provider_is_ready ==
    IF IPA_get_requirer_data.exc = "ValidationError" THEN FALSE
    ELSE IPA_get_requirer_data.val # None

(* a _share_version_info without the leadership guard *)
share_version_always(p) == TRUE

(* _share_version_info writes only on the leader *)
share_version_guard(p) == is_leader(p)

(* provider unit p handles relation-created/joined/changed; joined also   *)
(* runs _share_version_info                                               *)
IPA_provider_handle_relation(p, joined) ==
    /\ variant = "app"
    /\ related[TheRel]
    /\ last' = Op(IF joined THEN "provider_relation_joined" ELSE "provider_relation_changed",
                  is_leader(p), "ok")
    /\ emitted' = IF IPA_provider_is_ready THEN <<Note("data_provided", "", "")>> ELSE <<>>
    /\ app_data' = IF joined /\ share_version_guard(p) /\ is_leader(p)
                   THEN [app_data EXCEPT !.versions = "- v1"] ELSE app_data
    /\ writes' = IF joined /\ share_version_guard(p)
                 THEN {Write("app", "provider", p, is_leader(p))} ELSE {}
    /\ UNCHANGED <<variant, track, port, leader, related, unitVars, req_app_data, req_leader,
                   current_url, seen_app>>

(* IngressPerAppRequirer.url *)
IPA_url ==
    IF ~related[TheRel] THEN [exc |-> "", val |-> None]
    ELSE IF app_data.data = NoText THEN [exc |-> "", val |-> None]
    ELSE ProviderData_url(app_data.data)

(* IngressPerAppRequirer.is_ready *)
IPA_is_ready == IF IPA_url.exc = "ValidationError" THEN FALSE ELSE bool(IPA_url.val)

(* a _publish_auto_data that only the application's first unit ever runs *)
IPA_auto_guard_first_unit(u) == port # NoPort /\ u = this_unit_name

(* _publish_auto_data: publishes when constructed with a port, on the leader *)
IPA_auto_guard(u) == port # NoPort /\ req_leader = u

IPA_publish_auto_data(u) ==
    IF IPA_auto_guard(u) /\ req_leader = u THEN RequirerData_json(port) ELSE req_app_data
IPA_auto_writes(u) ==
    IF IPA_auto_guard(u) /\ req_leader = u
    THEN {Write("app", "requirer", u, req_leader = u)} ELSE {}
(* provide_ingress_requirements asserts leadership *)
IPA_auto_result(u) ==
    IF IPA_auto_guard(u) /\ req_leader # u THEN "AssertionError" ELSE "ok"

(* _emit_ingress_ready_event: only when there is a NEW url *)
emit_ready(stored, new_url) == stored # new_url

(* the body of IngressPerAppRequirer._handle_relation (this unit) *)
IPA_handle_relation_body(op) ==
    /\ last' = Op(op, req_leader = this_unit_name, IPA_auto_result(this_unit_name))
    /\ writes' = IPA_auto_writes(this_unit_name)
    /\ IF IPA_auto_result(this_unit_name) = "ok" /\ IPA_is_ready
          /\ emit_ready(current_url, IPA_url.val)
       THEN /\ current_url' = IPA_url.val
            /\ emitted' = <<Note("ready", "", "")>>
       ELSE /\ emitted' = <<>>
            /\ UNCHANGED current_url

IPA_relation_created ==
    /\ variant = "app"
    /\ ~related[TheRel]
    /\ related' = [related EXCEPT ![TheRel] = TRUE]
    /\ last' = Op("relation_created", req_leader = this_unit_name, IPA_auto_result(this_unit_name))
    /\ writes' = IPA_auto_writes(this_unit_name)
    /\ req_app_data' = IPA_publish_auto_data(this_unit_name)
    /\ seen_app' = IF track THEN NoText ELSE Unread
    /\ emitted' = <<>>
    /\ UNCHANGED <<variant, track, port, leader, unitVars, app_data, req_leader, current_url>>

IPA_relation_changed ==
    /\ variant = "app"
    /\ related[TheRel]
    /\ IPA_handle_relation_body("relation_changed")
    /\ req_app_data' = IPA_publish_auto_data(this_unit_name)
    /\ seen_app' = IF track THEN app_data.data ELSE Unread
    /\ UNCHANGED <<variant, track, port, leader, related, unitVars, app_data, req_leader>>

NoAppData == [data |-> NoText, versions |-> ""]

(* relation-broken: the requirer unit emits revoked, the provider unit   *)
(* emits data_removed; the runtime then drops the relation with its     *)
(* databags                                                              *)
(* a _handle_relation_broken that revokes only what was announced *)
IPA_broken_events_if_ready ==
    IF current_url # None THEN <<Note("revoked", "", "")>> ELSE <<>>

(* IngressPerAppRequirer._handle_relation_broken: self.on.revoked.emit *)
IPA_broken_events == <<Note("revoked", "", "")>>

IPA_relation_broken ==
    /\ variant = "app"
    /\ related[TheRel]
    /\ last' = Op("relation_broken", req_leader = this_unit_name, "ok")
    /\ emitted' = IPA_broken_events
    /\ writes' = {}
    /\ related' = [related EXCEPT ![TheRel] = FALSE]
    /\ app_data' = NoAppData
    /\ req_app_data' = NoText
    /\ UNCHANGED <<variant, track, port, leader, unitVars, req_leader, current_url, seen_app>>

IPA_provider_relation_broken(p) ==
    /\ variant = "app"
    /\ related[TheRel]
    /\ last' = Op("provider_relation_broken", is_leader(p), "ok")
    /\ emitted' = <<Note("data_removed", "", "")>>
    /\ writes' = {}
    /\ related' = [related EXCEPT ![TheRel] = FALSE]
    /\ app_data' = NoAppData
    /\ req_app_data' = NoText
    /\ UNCHANGED <<variant, track, port, leader, unitVars, req_leader, current_url, seen_app>>

(* leader-elected and upgrade-charm on requirer unit u *)
IPA_handle_upgrade_or_leader(u) ==
    /\ variant = "app"
    /\ last' = Op("upgrade_or_leader", req_leader = u,
                  IF related[TheRel] THEN IPA_auto_result(u) ELSE "ok")
    /\ emitted' = <<>>
    /\ req_app_data' = IF related[TheRel] THEN IPA_publish_auto_data(u) ELSE req_app_data
    /\ writes' = IF related[TheRel] THEN IPA_auto_writes(u) ELSE {}
    /\ UNCHANGED <<variant, track, port, leader, related, unitVars, app_data, req_leader,
                   current_url, seen_app>>

----------------------------------------------------------------------------
(* The environment *)

(* leadership of the requirer application moves to unit u *)
RequirerLeaderChange(u) ==
    /\ variant = "app"
    /\ req_leader # u
    /\ req_leader' = u
    /\ last' = Op("env", FALSE, "ok")
    /\ emitted' = <<>>
    /\ writes' = {}
    /\ UNCHANGED <<variant, track, port, leader, related, unitVars, app_data, req_app_data,
                   current_url, seen_app>>

(* a writer that is not this library leaves text under the provider's "data" *)
ForeignData(text) ==
    /\ variant = "app"
    /\ related[TheRel]
    /\ app_data' = [app_data EXCEPT !.data = text]
    /\ last' = Op("env", FALSE, "ok")
    /\ emitted' = <<>>
    /\ writes' = {}
    /\ UNCHANGED <<variant, track, port, leader, related, unitVars, req_app_data, req_leader,
                   current_url, seen_app>>

(* leadership of the provider application moves to unit p *)
ProviderLeaderChange(p) ==
    /\ leader # p
    /\ leader' = p
    /\ last' = Op("env", FALSE, "ok")
    /\ emitted' = <<>>
    /\ writes' = {}
    /\ UNCHANGED <<variant, track, port, related, unitVars, appVars>>

(* a writer that is not this library leaves text under "ingress" *)
ForeignIngress(r, text) ==
    /\ variant = "unit"
    /\ related[r]
    /\ ingress' = [ingress EXCEPT ![r] = text]
    /\ published' = IF r = TheRel THEN Unknown ELSE published
    /\ last' = Op("env", FALSE, "ok")
    /\ emitted' = <<>>
    /\ writes' = {}
    /\ UNCHANGED <<variant, track, DO_VALIDATION, listen_to, port, leader, related, unit_data,
                   app_name, current_urls, seen, told, observed, appVars>>

----------------------------------------------------------------------------
ListenTo == {"only-this-unit", "all-units", "both", "all"}

InitState ==
    /\ variant \in {"unit", "app"}
    /\ DO_VALIDATION \in (IF variant = "unit" THEN BOOLEAN ELSE {TRUE})
    /\ listen_to \in (IF variant = "unit" THEN ListenTo ELSE {"only-this-unit"})
    /\ port \in {NoPort, 80}
    /\ leader = "traefik/0"
    /\ related = [r \in Rels |-> FALSE]
    /\ ingress = [r \in Rels |-> NoText]
    /\ unit_data = [r \in Rels |-> NoUnitData]
    /\ app_name = [r \in Rels |-> "known"]
    /\ current_urls = NoneMap
    /\ seen = Unread
    /\ told = Nothing
    /\ observed = None
    /\ published = EmptyMap
    /\ emitted = <<>>
    /\ writes = {}
    /\ last = Op("env", FALSE, "ok")
    /\ app_data = NoAppData
    /\ req_app_data = NoText
    /\ req_leader = "app/0"
    /\ current_url = None
    /\ seen_app = Unread

Next ==
    \/ \E p \in ProviderUnits, u \in UnitNames, x \in Urls :
            IPU_publish_url(TheRel, p, u, x)
    \/ \E p \in ProviderUnits : IPU_wipe_ingress_data(TheRel, p)
    \/ IPU_relation_created
    \/ IPU_relation_changed
    \/ \E view \in {"known", "empty", "none"} : IPU_relation_broken(view)
    \/ IPU_handle_upgrade_or_leader
    \/ \E t \in CorruptTexts : ForeignIngress(TheRel, t)
    \/ \E p \in ProviderUnits : ProviderLeaderChange(p)
    \/ \E p \in ProviderUnits, x \in Urls : IPA_publish_url(p, x)
    \/ \E p \in ProviderUnits : IPA_wipe_ingress_data(p)
    \/ \E p \in ProviderUnits, joined \in BOOLEAN : IPA_provider_handle_relation(p, joined)
    \/ \E p \in ProviderUnits : IPA_provider_relation_broken(p)
    \/ IPA_relation_created
    \/ IPA_relation_changed
    \/ IPA_relation_broken
    \/ \E u \in UnitNames : IPA_handle_upgrade_or_leader(u)
    \/ \E u \in UnitNames : RequirerLeaderChange(u)
    \/ \E t \in CorruptJson \cup WireTexts : ForeignData(t)

Init == track = FALSE /\ InitState

Spec == Init /\ [][Next]_vars

(* the same program, with what every handler run read on record *)
InitIdem == track = TRUE /\ InitState

(* the operations that move what the requirer reads: the provider leader's *)
(* calls, foreign writes, and the requirer's relation events               *)
NextIdem ==
    \/ \E u \in UnitNames, x \in Urls : IPU_publish_url(TheRel, leader, u, x)
    \/ IPU_wipe_ingress_data(TheRel, leader)
    \/ IPU_relation_created
    \/ IPU_relation_changed
    \/ \E view \in {"known", "empty", "none"} : IPU_relation_broken(view)
    \/ \E t \in CorruptTexts : ForeignIngress(TheRel, t)
    \/ \E x \in Urls : IPA_publish_url(leader, x)
    \/ IPA_wipe_ingress_data(leader)
    \/ IPA_relation_created
    \/ IPA_relation_changed
    \/ IPA_relation_broken
    \/ \E t \in CorruptJson \cup WireTexts : ForeignData(t)

SpecIdem == InitIdem /\ [][NextIdem]_vars

----------------------------------------------------------------------------
(* The provider reading what the remote units published *)

(* a relation of the provider is established *)
Provider_relation_created(r) ==
    /\ variant = "unit"
    /\ ~related[r]
    /\ related' = [related EXCEPT ![r] = TRUE]
    /\ last' = Op("env", FALSE, "ok")
    /\ UNCHANGED <<variant, track, port, leader, emitted, writes, unitVars, appVars>>

(* a relation of the provider goes away with its databags *)
Provider_relation_removed(r) ==
    /\ variant = "unit"
    /\ related[r]
    /\ related' = [related EXCEPT ![r] = FALSE]
    /\ unit_data' = [unit_data EXCEPT ![r] = NoUnitData]
    /\ ingress' = [ingress EXCEPT ![r] = NoText]
    /\ published' = IF r = TheRel THEN EmptyMap ELSE published
    /\ app_name' = [app_name EXCEPT ![r] = "known"]
    /\ last' = Op("env", FALSE, "ok")
    /\ UNCHANGED <<variant, track, DO_VALIDATION, listen_to, port, leader,
                   current_urls, seen, told, observed, emitted, writes, appVars>>

(* remote unit u, deployed in model m, runs provide_ingress_requirements *)
Remote_provide_ingress_requirements(r, u, m, p) ==
    /\ variant = "unit"
    /\ related[r]
    /\ u \in RemoteUnits(r)
    /\ unit_data' = [unit_data EXCEPT ![r][u] = requirements_of(u, m, p)]
    /\ last' = Op("env", FALSE, "ok")
    /\ UNCHANGED <<variant, track, DO_VALIDATION, listen_to, port, leader, related, ingress,
                   app_name, current_urls, seen, told, observed, published, emitted, writes,
                   appVars>>

(* a remote unit that has not published its port (yet) *)
Remote_partial(r, u, m) ==
    /\ variant = "unit"
    /\ related[r]
    /\ u \in RemoteUnits(r)
    /\ unit_data' = [unit_data EXCEPT ![r][u] =
                        [requirements_of(u, m, NoPort) EXCEPT !.port = Missing]]
    /\ last' = Op("env", FALSE, "ok")
    /\ UNCHANGED <<variant, track, DO_VALIDATION, listen_to, port, leader, related, ingress,
                   app_name, current_urls, seen, told, observed, published, emitted, writes,
                   appVars>>

(* the hook the provider runs in shows the remote application as `name` *)
HookContext(r, name) ==
    /\ variant = "unit"
    /\ related[r]
    /\ app_name[r] # name
    /\ app_name' = [app_name EXCEPT ![r] = name]
    /\ last' = Op("env", FALSE, "ok")
    /\ UNCHANGED <<variant, track, DO_VALIDATION, listen_to, port, leader, related, ingress,
                   unit_data, current_urls, seen, told, observed, published, emitted, writes,
                   appVars>>

(* the charm calls is_ready(relation) *)
IPU_provider_is_ready(r) ==
    /\ variant = "unit"
    /\ related[r]
    /\ last' = Op("is_ready", FALSE,
                  IF provider_is_ready(app_name[r], RemoteUnits(r), unit_data[r])
                  THEN "True" ELSE "False")
    /\ UNCHANGED <<variant, track, port, leader, related, emitted, writes, unitVars, appVars>>

(* the charm calls validate(relation) *)
IPU_provider_validate(r, order) ==
    /\ variant = "unit"
    /\ related[r]
    /\ last' = Op("validate", FALSE,
                  validate(app_name[r], RemoteUnits(r), unit_data[r], order))
    /\ UNCHANGED <<variant, track, port, leader, related, emitted, writes, unitVars, appVars>>

InitRead ==
    /\ Init
    /\ variant = "unit"
    /\ DO_VALIDATION /\ listen_to = "only-this-unit" /\ port = NoPort

NextRead ==
    \/ \E r \in Rels : Provider_relation_created(r)
    \/ \E r \in Rels : Provider_relation_removed(r)
    \/ \E r \in Rels, u \in UnitNames, m \in Models, p \in Ports \cup {NoPort} :
            Remote_provide_ingress_requirements(r, u, m, p)
    \/ \E r \in Rels, u \in UnitNames, m \in Models : Remote_partial(r, u, m)
    \/ \E r \in Rels, name \in {"known", "empty", "none"} : HookContext(r, name)
    \/ \E r \in Rels : IPU_provider_is_ready(r)
    \/ \E r \in Rels, order \in Orders : IPU_provider_validate(r, order)

SpecRead == InitRead /\ [][NextRead]_vars

----------------------------------------------------------------------------
(* The provider fetching one remote unit's record *)

(* remote unit u, deployed in model m, runs                               *)
(* provide_ingress_requirements(host=h, port=p)                           *)
Remote_provide_host(r, u, m, h, p) ==
    /\ variant = "unit"
    /\ related[r]
    /\ u \in RemoteUnits(r)
    /\ unit_data' = [unit_data EXCEPT ![r][u] = provide_ingress_requirements_data(u, m, h, p)]
    /\ last' = Op("env", FALSE, "ok")
    /\ UNCHANGED <<variant, track, DO_VALIDATION, listen_to, port, leader, related, ingress,
                   app_name, current_urls, seen, told, observed, published, emitted, writes,
                   appVars>>

(* the charm calls get_data(relation, unit) *)
IPU_get_data_call(r, u) ==
    /\ variant = "unit"
    /\ related[r]
    /\ u \in RemoteUnits(r)
    /\ last' = Op("get_data", FALSE,
                  IF IPU_get_data(unit_data[r][u]).exc = "" THEN "ok"
                  ELSE IPU_get_data(unit_data[r][u]).exc)
    /\ UNCHANGED <<variant, track, port, leader, related, emitted, writes, unitVars, appVars>>

InitData == InitRead

NextData ==
    \/ Provider_relation_created(TheRel)
    \/ Provider_relation_removed(TheRel)
    \/ \E u \in UnitNames, m \in Models, h \in Hosts \cup {None}, p \in Ports :
            Remote_provide_host(TheRel, u, m, h, p)
    \/ \E u \in UnitNames, m \in Models : Remote_partial(TheRel, u, m)
    \/ \E u \in UnitNames : IPU_get_data_call(TheRel, u)

SpecData == InitData /\ [][NextData]_vars

----------------------------------------------------------------------------
(* The provider leader publishing on its relations *)

(* the charm reads proxied_endpoints *)
IPU_proxied_endpoints(p) ==
    /\ variant = "unit"
    /\ last' = Op("proxied_endpoints", is_leader(p),
                  IF DOMAIN proxied_endpoints(p) = {} THEN "empty" ELSE "entries")
    /\ UNCHANGED <<variant, track, port, leader, related, emitted, writes, unitVars, appVars>>

InitPub ==
    /\ Init
    /\ variant = "unit"
    /\ listen_to = "only-this-unit" /\ port = NoPort

NextPub ==
    \/ \E r \in Rels : Provider_relation_created(r)
    \/ \E r \in Rels : Provider_relation_removed(r)
    \/ \E r \in Rels, u \in UnitNames, x \in Urls : IPU_publish_url(r, leader, u, x)
    \/ \E r \in Rels : IPU_wipe_ingress_data(r, leader)
    \/ \E r \in Rels, t \in CorruptTexts : ForeignIngress(r, t)
    \/ IPU_proxied_endpoints(leader)

SpecPub == InitPub /\ [][NextPub]_vars

----------------------------------------------------------------------------
(* Properties *)

HookViews == {"known", "empty", "none"}

(* a run of IngressPerUnitRequirer._handle_relation on an existing relation *)
IPU_handled(view) == (view = "known" /\ IPU_relation_changed) \/ IPU_relation_broken(view)

ReadyForUnit(seq) == SelectSeq(seq, LAMBDA n : n.kind = "ready_for_unit")

(* C1: (both requirer variants) a relation event handler that reads the    *)
(* same provider data as the handler run before it emits no notification  *)
(* and leaves the stored last-known URL state as it was.                   *)
C1_Idempotent ==
    [][ /\ (variant = "unit" /\ (IPU_relation_changed \/ IPU_relation_created)
            /\ seen = ingress[TheRel])
           => (emitted' = <<>> /\ current_urls' = current_urls)
        /\ (variant = "app" /\ (IPA_relation_changed \/ IPA_relation_created)
            /\ seen_app = app_data.data)
           => (emitted' = <<>> /\ current_url' = current_url) ]_vars

C1_Witness ==
    /\ track /\ variant = "unit" /\ listen_to = "both"
    /\ last.op = "relation_changed" /\ last.result = "ok"
    /\ seen = ingress[TheRel]
    /\ DOMAIN current_urls = UnitNames
    /\ emitted = <<>>

(* C2: in 'only-this-unit' mode a handler run that reads for this unit a   *)
(* URL different from the one last read by a handler run (or none read     *)
(* before) emits exactly one ready_for_unit, carrying that URL; every      *)
(* other handler run emits no ready_for_unit.                              *)
NewUrl(view) ==
    url(view).exc = "" /\ url(view).val # None /\ url(view).val # observed

C2_ReadyForUnitOncePerUrl ==
    [][ (variant = "unit" /\ listen_to = "only-this-unit") =>
          /\ \A view \in HookViews :
                IPU_handled(view) =>
                    ReadyForUnit(emitted') =
                        IF NewUrl(view)
                        THEN <<Note("ready_for_unit", "", url(view).val)>> ELSE <<>>
          /\ IPU_relation_created => ReadyForUnit(emitted') = <<>> ]_vars

C2_Witness ==
    /\ variant = "unit" /\ listen_to = "only-this-unit"
    /\ last.op = "relation_changed"
    /\ emitted = <<Note("ready_for_unit", "", "http://proxy/2")>>
    /\ published = [u \in UnitNames |-> "http://proxy/2"]

(* C3: while the relation exists and only the leader's publish_url calls   *)
(* have written the mapping, urls is the mapping from each published       *)
(* identity to the URL of its most recent publish_url call, url is its     *)
(* entry for the requirer's own unit (None when it has none), and the URL  *)
(* mapping survives encoding and decoding.                                 *)
C3_PublishRoundTrip ==
    (variant = "unit" /\ related[TheRel] /\ published # Unknown) =>
        /\ urls("known") = Ok(published)
        /\ url("known") = [exc |-> "", val |-> Get(published, this_unit_name)]
        /\ safe_load(safe_dump(published)) = [kind |-> "mapping", m |-> published]

C3_Witness ==
    /\ variant = "unit" /\ related[TheRel]
    /\ last.op = "publish_url" /\ last.result = "ok"
    /\ DOMAIN published = UnitNames
    /\ published["app/0"] = "http://proxy/2" /\ published["app/1"] = "http://proxy/1"

(* C4 (as amended): on the handler run after wipe_ingress_data the         *)
(* requirer is not ready and emits revoked notifications only for what it  *)
(* had observed before: in 'only-this-unit' mode one revoked_for_unit if   *)
(* it had read a URL for its own unit and none otherwise, in 'all-units'   *)
(* mode one revoked per identity of its stored mapping; a later run on     *)
(* the unchanged store emits nothing.                                      *)
C4_WipeRevokesObserved ==
    [][ (variant = "unit" /\ IPU_relation_changed /\ ingress[TheRel] = NoText) =>
          /\ ~(IPU_is_ready("known").val)'
          /\ current_urls' = EmptyMap
          /\ listen_to = "only-this-unit" =>
                emitted' = IF observed # None
                           THEN <<Note("revoked_for_unit", "", "")>> ELSE <<>>
          /\ listen_to = "all-units" =>
                /\ Len(emitted') = Cardinality(DOMAIN previous_urls)
                /\ Count(emitted', "revoked") = Len(emitted')
          /\ current_urls = EmptyMap => emitted' = <<>> ]_vars

C4_Witness ==
    /\ variant = "unit" /\ listen_to = "all-units" /\ related[TheRel]
    /\ last.op = "relation_changed"
    /\ ingress[TheRel] = NoText
    /\ Count(emitted, "revoked") = 2

(* C4 as stated: publish for the requirer's unit, wipe, then the next      *)
(* relation-changed handling emits exactly one revoked notification,       *)
(* also in 'all-units' mode.                                               *)
C4_ExactlyOneRevoked ==
    [][ (variant = "unit" /\ IPU_relation_changed
         /\ last.op = "wipe_ingress_data" /\ last.result = "ok" /\ last.had_url
         /\ listen_to \in {"only-this-unit", "all-units"}) =>
          /\ ~(IPU_is_ready("known").val)'
          /\ Count(emitted', "revoked_for_unit") + Count(emitted', "revoked") = 1 ]_vars

(* C5: per-unit provider: publish_url and wipe_ingress_data called by a    *)
(* unit that is not the leader end in the assertion and leave the store   *)
(* as it was.                                                              *)
C5_NonLeaderAsserts ==
    [][ \A p \in ProviderUnits :
          (~is_leader(p)
           /\ ((\E u \in UnitNames, x \in Urls : IPU_publish_url(TheRel, p, u, x))
               \/ IPU_wipe_ingress_data(TheRel, p)))
          => (last'.result = "AssertionError" /\ ingress' = ingress) ]_vars

C5_Witness ==
    /\ variant = "unit"
    /\ last.op \in {"publish_url", "wipe_ingress_data"}
    /\ ~last.by_leader /\ last.result = "AssertionError"
    /\ ingress[TheRel] # NoText

(* C6 as stated: per-app provider: publish_url and wipe_ingress_data       *)
(* called by a unit that is not the leader fail in the library's own       *)
(* leadership assertion.                                                   *)
C6_PerAppNonLeaderAsserts ==
    (variant = "app" /\ last.op \in {"publish_url", "wipe_ingress_data"} /\ ~last.by_leader)
        => last.result = "AssertionError"

(* C7: every write a handler makes to an application databag is made by a  *)
(* leader unit, and the per-unit requirer's handlers write only the        *)
(* databag of their own unit.                                              *)
C7_WriteDiscipline ==
    \A w \in writes :
        /\ w.segment = "app" => w.by_leader
        /\ (variant = "unit" /\ w.by \in UnitNames) =>
                (w.segment = "unit" /\ w.owner = w.by)

C7_Witness ==
    /\ variant = "app"
    /\ last.op = "provider_relation_joined" /\ ~last.by_leader
    /\ writes = {}
    /\ app_data.versions = "- v1"

(* the stored "ingress" value decodes to something the provider shape rejects *)
FailsShape(r) == ingress[r] # NoText /\ ~ProvidesSchemaOk(safe_load(ingress[r]))

(* C8 (as amended): with validation enabled, publish_url by the leader on  *)
(* a stored value that fails the provider shape returns without raising   *)
(* and leaves the store as it was.                                         *)
C8_CorruptStoreKept ==
    [][ (DO_VALIDATION /\ FailsShape(TheRel)) =>
          \A p \in ProviderUnits, u \in UnitNames, x \in Urls :
            (is_leader(p) /\ IPU_publish_url(TheRel, p, u, x))
            => (last'.result = "return" /\ ingress' = ingress) ]_vars

C8_Witness ==
    /\ variant = "unit" /\ DO_VALIDATION
    /\ last.op = "publish_url" /\ last.by_leader /\ last.result = "return"
    /\ FailsShape(TheRel)

(* C8 as stated: the same whether or not validation is enabled *)
C8_CorruptStoreKeptAlways ==
    [][ FailsShape(TheRel) =>
          \A p \in ProviderUnits, u \in UnitNames, x \in Urls :
            (is_leader(p) /\ IPU_publish_url(TheRel, p, u, x))
            => (last'.result = "return" /\ ingress' = ingress) ]_vars

(* a complete requirements record: the four fields, the port an integer *)
Complete(bag) == HasAll(bag) /\ IsInt(bag.port)

(* C9 as stated: is_ready(relation) is true exactly when the remote        *)
(* application identity is known and at least one remote unit has          *)
(* published a complete record, whatever the other units published, and    *)
(* is_ready() is true exactly when some relation is ready.                 *)
C9_ReadyIffSomeComplete ==
    /\ \A r \in Rels :
          related[r] =>
            (provider_is_ready(app_name[r], RemoteUnits(r), unit_data[r])
             <=> (app_name[r] = "known"
                  /\ \E u \in RemoteUnits(r) : Complete(unit_data[r][u])))
    /\ provider_is_ready_any
         <=> \E r \in Rels :
                related[r] /\ provider_is_ready(app_name[r], RemoteUnits(r), unit_data[r])

(* the same records, all in one model *)
OneModel(bags) ==
    [u \in DOMAIN bags |->
        IF bags[u].model = Missing THEN bags[u] ELSE [bags[u] EXCEPT !.model = ThisModel]]

(* C10 as stated: validate(relation) raises RelationDataMismatchError      *)
(* exactly when two remote units with complete records published           *)
(* different models, in whatever order the units are listed and whatever   *)
(* their ports; equal models never make it raise; is_ready does not        *)
(* depend on the models.                                                   *)
C10_MismatchIffModelsDiffer ==
    \A r \in Rels :
      (related[r] /\ app_name[r] = "known") =>
        /\ \A order \in Orders :
              /\ validate("known", RemoteUnits(r), unit_data[r], order)
                        = "RelationDataMismatchError"
                   <=> \E u, v \in RemoteUnits(r) :
                          /\ Complete(unit_data[r][u]) /\ Complete(unit_data[r][v])
                          /\ unit_data[r][u].model # unit_data[r][v].model
              /\ (\A u, v \in RemoteUnits(r) :
                       (Complete(unit_data[r][u]) /\ Complete(unit_data[r][v]))
                       => unit_data[r][u].model = unit_data[r][v].model)
                   => validate("known", RemoteUnits(r), unit_data[r], order) = "return"
        /\ provider_is_ready("known", RemoteUnits(r), unit_data[r])
             = provider_is_ready("known", RemoteUnits(r), OneModel(unit_data[r]))

(* C11 as stated: per-unit requirer: the handling of relation-broken       *)
(* emits a revoked notification (revoked_for_unit in 'only-this-unit'      *)
(* mode, revoked in 'all-units' mode) whether or not a URL was ever        *)
(* observed.                                                               *)
C11_BrokenAlwaysRevokes ==
    (variant = "unit" /\ last.op = "relation_broken") =>
        /\ listen_to = "only-this-unit" => Count(emitted, "revoked_for_unit") >= 1
        /\ listen_to = "all-units" => Count(emitted, "revoked") >= 1

(* C12: per-app requirer: the handling of every relation-broken event      *)
(* emits exactly one revoked notification and nothing else, in every       *)
(* state of the requirer, also when no ready was ever emitted.             *)
C12_PerAppBrokenRevokes ==
    (variant = "app" /\ last.op = "relation_broken") =>
        emitted = <<Note("revoked", "", "")>>

C12_Witness ==
    /\ variant = "app" /\ last.op = "relation_broken"
    /\ current_url = None
    /\ emitted = <<Note("revoked", "", "")>>

(* C13 as stated: per-app requirer: once it has emitted ready for a URL    *)
(* and the provider's data has gone through wipe_ingress_data with the     *)
(* relation still established, the next relation-changed handling emits    *)
(* a revoked notification.                                                 *)
C13_PerAppWipeRevokes ==
    [][ (variant = "app" /\ IPA_relation_changed
         /\ current_url # None
         /\ last.op = "wipe_ingress_data" /\ last.result = "ok")
        => Count(emitted', "revoked") >= 1 ]_vars

(* the provider's per-app "data" value fails the provider shape *)
FailsShapeApp == app_data.data # NoText /\ ProviderData_url(app_data.data).exc # ""

(* C14 as stated: both variants: with malformed provider data neither the  *)
(* relation event handler nor is_ready() raises, is_ready() is false and   *)
(* no ready notification is emitted.                                       *)
C14_MalformedNeverRaises ==
    /\ (variant = "unit" /\ related[TheRel] /\ FailsShape(TheRel)) =>
          /\ IPU_is_ready("known") = [exc |-> "", val |-> FALSE]
          /\ last.op = "relation_changed" =>
                (last.result = "ok" /\ Count(emitted, "ready") = 0
                 /\ Count(emitted, "ready_for_unit") = 0)
    /\ (variant = "app" /\ related[TheRel] /\ FailsShapeApp) =>
          /\ ~IPA_is_ready
          /\ last.op = "relation_changed" =>
                (last.result = "ok" /\ Count(emitted, "ready") = 0)

(* the URL mapping a relation's "ingress" value holds *)
Mapping(text) == IF text = NoText THEN EmptyMap ELSE safe_load(text).m

(* the identities of relation r that have a URL published *)
Published(r) ==
    IF related[r] /\ ingress[r] # NoText /\ ~FailsShape(r)
    THEN Mapping(ingress[r]) ELSE EmptyMap

(* C15 as stated: on the leader, proxied_endpoints holds exactly the        *)
(* identities that have a URL published through publish_url, over all      *)
(* relations, each with its URL; identities of a wiped relation are gone.  *)
C15_ProxiedEndpoints ==
    variant = "unit" =>
        /\ DOMAIN proxied_endpoints(leader) = UNION {DOMAIN Published(r) : r \in Rels}
        /\ \A u \in DOMAIN proxied_endpoints(leader) :
              \E r \in Rels : /\ u \in DOMAIN Published(r)
                              /\ proxied_endpoints(leader)[u] = Published(r)[u]

(* C16 as stated: get_data returns an empty record and does not fail when  *)
(* the remote side has published nothing or only some of the fields        *)
(* (per-unit get_data(relation, unit), per-app get_data(relation)).        *)
C16_GetDataNeverFails ==
    /\ (variant = "unit" /\ related[TheRel]) =>
          \A u \in UnitNames :
              ~HasAll(unit_data[TheRel][u]) =>
                  /\ IPU_get_data(unit_data[TheRel][u]).exc = ""
                  /\ IPU_get_data(unit_data[TheRel][u]).val = EmptyMap
    /\ (variant = "app" /\ related[TheRel] /\ req_app_data = NoText) =>
          IPA_get_requirer_data.exc = ""

(* C17: per-unit variant: once a requirer unit has run                     *)
(* provide_ingress_requirements(host=h, port=p) with an integer p, the    *)
(* provider's get_data for that unit returns the requirer's model, the    *)
(* unit's name, the host h and the integer p.                             *)
C17_GetDataRoundTrip ==
    [][ \A u \in UnitNames, m \in Models, h \in Hosts, p \in Ports :
          Remote_provide_host(TheRel, u, m, h, p) =>
              /\ IPU_get_data(unit_data'[TheRel][u]).exc = ""
              /\ IPU_get_data(unit_data'[TheRel][u]).val
                    = [model |-> m, name |-> u, host |-> h, port |-> p] ]_vars

C17_Witness ==
    /\ variant = "unit" /\ related[TheRel]
    /\ last.op = "get_data" /\ last.result = "ok"
    /\ unit_data[TheRel]["app/1"]
          = [model |-> "m2", name |-> "app/1", host |-> "10.0.0.1", port |-> "81"]
    /\ IPU_get_data(unit_data[TheRel]["app/1"]).val.port = 81

(* C18: per-unit provider: a successful publish_url(relation, identity,    *)
(* url) by the leader sets that identity's entry to the URL and leaves     *)
(* every other entry of the relation, and all published data of every      *)
(* other relation, as it was.                                              *)
C18_PublishFrame ==
    [][ \A r \in Rels, u \in UnitNames, x \in Urls :
          (IPU_publish_url(r, leader, u, x) /\ last'.result = "ok") =>
              /\ \A r2 \in Rels \ {r} : ingress'[r2] = ingress[r2]
              /\ DOMAIN Mapping(ingress'[r]) = DOMAIN Mapping(ingress[r]) \cup {u}
              /\ Mapping(ingress'[r])[u] = x
              /\ \A k \in DOMAIN Mapping(ingress[r]) \ {u} :
                    Mapping(ingress'[r])[k] = Mapping(ingress[r])[k] ]_vars

C18_Witness ==
    /\ variant = "unit" /\ related[1] /\ related[2]
    /\ last.op = "publish_url" /\ last.by_leader /\ last.result = "ok"
    /\ DOMAIN Mapping(ingress[1]) = UnitNames
    /\ Mapping(ingress[1])["app/0"] # Mapping(ingress[1])["app/1"]
    /\ DOMAIN Mapping(ingress[2]) = {"app/1"}

(* C19: per-unit provider: after the leader's wipe_ingress_data(relation)  *)
(* the relation holds no published URL (the requirer's urls is empty and   *)
(* its url is None), and a publish_url on the relation with nothing        *)
(* published yields a mapping with exactly the published identity.         *)
C19_WipeThenPublish ==
    [][ \A r \in Rels :
          /\ IPU_wipe_ingress_data(r, leader) =>
                /\ ingress'[r] = NoText
                /\ r = TheRel => /\ urls("known")' = Ok(EmptyMap)
                                 /\ url("known")' = [exc |-> "", val |-> None]
          /\ \A u \in UnitNames, x \in Urls :
                (IPU_publish_url(r, leader, u, x) /\ ingress[r] = NoText) =>
                    Mapping(ingress'[r]) = [k \in {u} |-> x] ]_vars

C19_Witness ==
    /\ variant = "unit" /\ related[TheRel]
    /\ last.op = "wipe_ingress_data" /\ last.by_leader /\ last.result = "ok"
    /\ last.had_url
    /\ ingress[TheRel] = NoText
    /\ urls("known") = Ok(EmptyMap)

(* keys in both mappings with equal URL *)
unchanged(prev, cur) == {a \in DOMAIN prev \cap DOMAIN cur : cur[a] = prev[a]}

(* the mapping a handler run would read now, empty when the read fails *)
NowUrls == IF urls("known").exc = "" THEN urls("known").val ELSE EmptyMap

(* C20: for the previous and the current URL mapping of the per-unit       *)
(* requirer, removed, changed and unchanged are pairwise disjoint and      *)
(* their union is the union of the two key sets.                           *)
C20_DiffPartition ==
    variant = "unit" =>
        /\ removed(previous_urls, NowUrls) \cap changed(previous_urls, NowUrls) = {}
        /\ removed(previous_urls, NowUrls) \cap unchanged(previous_urls, NowUrls) = {}
        /\ changed(previous_urls, NowUrls) \cap unchanged(previous_urls, NowUrls) = {}
        /\ removed(previous_urls, NowUrls) \cup changed(previous_urls, NowUrls)
              \cup unchanged(previous_urls, NowUrls)
            = DOMAIN previous_urls \cup DOMAIN NowUrls

C20_Witness ==
    /\ variant = "unit" /\ related[TheRel]
    /\ removed(previous_urls, NowUrls) = {"app/1"}
    /\ changed(previous_urls, NowUrls) = {"app/0"}
    /\ "app/0" \in DOMAIN previous_urls

----------------------------------------------------------------------------
(* The requirer's observation scopes: the provider leader publishes and    *)
(* wipes, the requirer unit handles its relation events, and every handler *)
(* run leaves the mapping it started from on record                        *)

InitListen ==
    /\ track = TRUE
    /\ InitState
    /\ variant = "unit"
    /\ DO_VALIDATION /\ port = 80

NextListen ==
    \/ \E u \in UnitNames, x \in Urls : IPU_publish_url(TheRel, leader, u, x)
    \/ IPU_wipe_ingress_data(TheRel, leader)
    \/ IPU_relation_created
    \/ IPU_relation_changed
    \/ \E view \in HookViews : IPU_relation_broken(view)

SpecListen == InitListen /\ [][NextListen]_vars

(* C21: in 'only-this-unit' mode a handler run that finds this unit's      *)
(* entry as it was last observed (the stored mapping), whatever was added, *)
(* changed or removed for other units, emits no notification at all, and   *)
(* no handler run emits ready or revoked in this mode.                     *)
C21_OnlyThisUnitQuiet ==
    [][ (variant = "unit" /\ listen_to = "only-this-unit") =>
          /\ \A view \in HookViews :
                (IPU_handled(view) /\ urls(view).exc = ""
                 /\ Get(urls(view).val, this_unit_name)
                        = Get(previous_urls, this_unit_name))
                => emitted' = <<>>
          /\ (IPU_relation_created /\ Get(previous_urls, this_unit_name) = None)
                => emitted' = <<>>
          /\ Count(emitted', "ready") = 0
          /\ Count(emitted', "revoked") = 0 ]_vars

C21_Witness ==
    /\ variant = "unit" /\ listen_to = "only-this-unit"
    /\ last.op = "relation_changed" /\ last.result = "ok"
    /\ DOMAIN last.prev = UnitNames
    /\ DOMAIN current_urls = {this_unit_name}
    /\ current_urls[this_unit_name] = last.prev[this_unit_name]
    /\ emitted = <<>>

(* identities whose URL is new or different, and identities that are gone *)
ChangedIds(prev, cur) == {a \in DOMAIN cur : a \notin DOMAIN prev \/ prev[a] # cur[a]}
RemovedIds(prev, cur) == {a \in DOMAIN prev : a \notin DOMAIN cur}

(* what 'only-this-unit' and 'all-units' announce for prev and cur: the    *)
(* own-unit notifications in order, the all-units notifications as a set   *)
(* of ready notes and a number of revoked ones                             *)
BothScopes(out, prev, cur) ==
    /\ SelectSeq(out, LAMBDA n : n.kind \in {"ready_for_unit", "revoked_for_unit"})
         = (IF this_unit_name \in ChangedIds(prev, cur)
            THEN <<Note("ready_for_unit", "", cur[this_unit_name])>> ELSE <<>>)
           \o (IF this_unit_name \in RemovedIds(prev, cur)
               THEN <<Note("revoked_for_unit", "", "")>> ELSE <<>>)
    /\ {out[i] : i \in {j \in 1..Len(out) : out[j].kind = "ready"}}
         = {Note("ready", a, cur[a]) : a \in ChangedIds(prev, cur)}
    /\ Count(out, "ready") = Cardinality(ChangedIds(prev, cur))
    /\ Count(out, "revoked") = Cardinality(RemovedIds(prev, cur))
    /\ Len(out) = Count(out, "ready_for_unit") + Count(out, "revoked_for_unit")
                    + Count(out, "ready") + Count(out, "revoked")

(* C22: in 'both' mode one handler run emits exactly the notifications of  *)
(* the 'only-this-unit' scope together with those of the 'all-units'       *)
(* scope for the same previous and current mappings: one ready, with the   *)
(* unit and its current URL, per changed identity and one revoked per      *)
(* removed identity; a change of this unit's own URL is announced twice.   *)
C22_BothIsUnionOfScopes ==
    [][ (variant = "unit" /\ listen_to = "both") =>
          /\ \A view \in HookViews :
                (IPU_handled(view) /\ urls(view).exc = "") =>
                    /\ BothScopes(emitted', previous_urls, urls(view).val)
                    /\ this_unit_name \in ChangedIds(previous_urls, urls(view).val) =>
                          /\ Count(emitted', "ready_for_unit") = 1
                          /\ \E i \in 1..Len(emitted') :
                                emitted'[i] = Note("ready", this_unit_name,
                                                   urls(view).val[this_unit_name])
          /\ IPU_relation_created => BothScopes(emitted', previous_urls, EmptyMap) ]_vars

C22_Witness ==
    /\ variant = "unit" /\ listen_to = "both"
    /\ last.op = "relation_changed" /\ last.result = "ok"
    /\ DOMAIN last.prev = UnitNames
    /\ emitted = << Note("ready_for_unit", "", "http://proxy/2"),
                    Note("ready", "app/0", "http://proxy/2"),
                    Note("revoked", "", "") >>

(* C23 as stated: a requirer constructed with listen_to='all' receives     *)
(* both event types: a handler run that finds a new or different URL for   *)
(* this unit emits both ready_for_unit and ready.                          *)
C23_AllReceivesBoth ==
    [][ (variant = "unit" /\ listen_to = "all" /\ IPU_relation_changed
         /\ urls("known").exc = ""
         /\ this_unit_name \in ChangedIds(previous_urls, urls("known").val))
        => /\ Count(emitted', "ready_for_unit") = 1
           /\ Count(emitted', "ready") >= 1 ]_vars

----------------------------------------------------------------------------
(* is_ready in a hook that may not show the remote application            *)

(* IngressPerAppProvider._get_requirer_data in a hook that shows the       *)
(* remote application as view                                              *)
IPA_get_requirer_data_in(view) ==
    IF view # "known" THEN [exc |-> "", val |-> None]
    ELSE IPA_get_requirer_data

(* IngressPerAppProvider.is_ready(relation) in such a hook *)
IPA_provider_is_ready_in(view) ==
    IF IPA_get_requirer_data_in(view).exc = "ValidationError" THEN FALSE
    ELSE IPA_get_requirer_data_in(view).val # None

(* IngressPerAppRequirer.url in such a hook: relation.data has no entry    *)
(* for an application that is None; an application without a name is       *)
(* looked up like any other                                                *)
IPA_url_in(view) ==
    IF ~related[TheRel] THEN [exc |-> "", val |-> None]
    ELSE IF view = "none" THEN [exc |-> "KeyError", val |-> None]
    ELSE IPA_url

(* IngressPerAppRequirer.is_ready() in such a hook: only                   *)
(* pydantic.ValidationError is caught                                      *)
IPA_is_ready_in(view) ==
    IF IPA_url_in(view).exc = "ValidationError" THEN [exc |-> "", val |-> FALSE]
    ELSE IF IPA_url_in(view).exc # "" THEN [exc |-> IPA_url_in(view).exc, val |-> FALSE]
    ELSE [exc |-> "", val |-> bool(IPA_url_in(view).val)]

(* how a call of is_ready ends *)
Outcome(r) == IF r.exc # "" THEN r.exc ELSE IF r.val THEN "True" ELSE "False"

(* the hook the per-app libraries run in shows the remote application as name *)
IPA_HookContext(name) ==
    /\ variant = "app"
    /\ related[TheRel]
    /\ app_name[TheRel] # name
    /\ app_name' = [app_name EXCEPT ![TheRel] = name]
    /\ last' = Op("env", FALSE, "ok")
    /\ UNCHANGED <<variant, track, DO_VALIDATION, listen_to, port, leader, related, ingress,
                   unit_data, current_urls, seen, told, observed, published, emitted, writes,
                   appVars>>

(* the charm calls IngressPerUnitRequirer.is_ready() *)
IPU_requirer_is_ready ==
    /\ variant = "unit"
    /\ last' = Op("requirer_is_ready", FALSE, Outcome(IPU_is_ready(app_name[TheRel])))
    /\ UNCHANGED <<variant, track, port, leader, related, emitted, writes, unitVars, appVars>>

(* the charm calls IngressPerAppProvider.is_ready(relation) *)
IPA_provider_is_ready_call ==
    /\ variant = "app"
    /\ related[TheRel]
    /\ last' = Op("is_ready", FALSE,
                  IF IPA_provider_is_ready_in(app_name[TheRel]) THEN "True" ELSE "False")
    /\ UNCHANGED <<variant, track, port, leader, related, emitted, writes, unitVars, appVars>>

(* the charm calls IngressPerAppRequirer.is_ready() *)
IPA_requirer_is_ready ==
    /\ variant = "app"
    /\ last' = Op("requirer_is_ready", FALSE, Outcome(IPA_is_ready_in(app_name[TheRel])))
    /\ UNCHANGED <<variant, track, port, leader, related, emitted, writes, unitVars, appVars>>

InitUnknownApp ==
    /\ Init
    /\ DO_VALIDATION /\ listen_to = "only-this-unit" /\ port = 80

NextUnknownApp ==
    \/ IPU_relation_created
    \/ \E u \in UnitNames, x \in Urls : IPU_publish_url(TheRel, leader, u, x)
    \/ IPU_wipe_ingress_data(TheRel, leader)
    \/ \E name \in HookViews : HookContext(TheRel, name)
    \/ IPU_provider_is_ready(TheRel)
    \/ IPU_requirer_is_ready
    \/ Provider_relation_removed(TheRel)
    \/ IPA_relation_created
    \/ IPA_relation_changed
    \/ \E x \in Urls : IPA_publish_url(leader, x)
    \/ IPA_wipe_ingress_data(leader)
    \/ \E t \in CorruptJson \cup WireTexts : ForeignData(t)
    \/ \E name \in HookViews : IPA_HookContext(name)
    \/ IPA_provider_is_ready_call
    \/ IPA_requirer_is_ready
    \/ IPA_relation_broken

SpecUnknownApp == InitUnknownApp /\ [][NextUnknownApp]_vars

(* C24 as stated: while the hook does not show the remote application      *)
(* (absent, or without a name), every is_ready call, of the provider and   *)
(* of the requirer, in both variants, returns False and does not raise.    *)
C24_UnknownAppNotReady ==
    (related[TheRel] /\ app_name[TheRel] # "known"
     /\ last.op \in {"is_ready", "requirer_is_ready"})
    => last.result = "False"

(* the requirer application's name *)
ThisApp == "app"

(* C25 as stated: per-app variant: once the requirer leader has published  *)
(* its record (host h, port p), the provider's is_ready(relation) is true  *)
(* and get_data(relation) returns the requirer's model name, application   *)
(* name, h and p.                                                          *)
C25_RequirerRecordReadable ==
    (variant = "app" /\ related[TheRel] /\ port # NoPort
     /\ req_app_data = RequirerData_json(port))
    => /\ IPA_provider_is_ready
       /\ IPA_get_requirer_data.exc = ""
       /\ IPA_get_requirer_data.val # None
       /\ IPA_get_requirer_data.val
            = [model |-> ThisModel, name |-> ThisApp, host |-> Fqdn, port |-> port]

(* C26 as stated: per-app variant: after the provider leader calls         *)
(* publish_url(relation, url) the provider's 'data' key holds the JSON     *)
(* object with the single field url as a string, the requirer's url        *)
(* property returns that url and its is_ready() is true.                   *)
C26_PerAppPublishRoundTrip ==
    [][ \A x \in Urls :
          (variant = "app" /\ IPA_publish_url(leader, x))
          => /\ app_data'.data = ProviderData(x)
             /\ IPA_url' = [exc |-> "", val |-> x]
             /\ IPA_is_ready' ]_vars

(* C27: after the handling of leader-elected or upgrade-charm by a         *)
(* requirer constructed with a port, while the relation exists: the        *)
(* per-unit requirer's own unit databag holds its record, and the per-app  *)
(* requirer's application databag holds the record whenever the handling   *)
(* unit is the leader, also a unit that became leader only just before.    *)
C27_RepublishOnLeaderOrUpgrade ==
    (last.op = "upgrade_or_leader" /\ related[TheRel] /\ port # NoPort) =>
        /\ variant = "unit" =>
              unit_data[TheRel][this_unit_name]
                = [model |-> ThisModel, name |-> this_unit_name, host |-> Fqdn,
                   port |-> ToString(port)]
        /\ (variant = "app" /\ last.by_leader) =>
              /\ req_app_data # NoText
              /\ req_app_data = RequirerData_json(port)

C27_Witness ==
    /\ variant = "app" /\ related[TheRel] /\ port # NoPort
    /\ req_leader = "app/1"
    /\ last.op = "upgrade_or_leader" /\ last.by_leader
    /\ writes = {Write("app", "requirer", "app/1", TRUE)}
    /\ req_app_data = RequirerData_json(port)

----------------------------------------------------------------------------
(* The per-app provider's notifications: the requirer leader publishes its *)
(* record, leadership moves, the provider's units handle relation events   *)

InitProvided ==
    /\ Init
    /\ variant = "app"

NextProvided ==
    \/ IPA_relation_created
    \/ IPA_relation_changed
    \/ \E u \in UnitNames : IPA_handle_upgrade_or_leader(u)
    \/ \E u \in UnitNames : RequirerLeaderChange(u)
    \/ \E p \in ProviderUnits : ProviderLeaderChange(p)
    \/ \E p \in ProviderUnits, joined \in BOOLEAN : IPA_provider_handle_relation(p, joined)
    \/ \E p \in ProviderUnits : IPA_provider_relation_broken(p)

SpecProvided == InitProvided /\ [][NextProvided]_vars

C29_NoPortNoWrite ==
    (variant = "unit" /\ port = NoPort) =>
        /\ writes = {}
        /\ unit_data[TheRel][this_unit_name] = EmptyDatabag
        /\ \/ unit_data[TheRel][this_unit_name].port = Missing
           \/ IsInt(unit_data[TheRel][this_unit_name].port)

----------------------------------------------------------------------------
(* The per-app requirer over successive relations: the relation comes and  *)
(* goes, the provider's "data" key receives URLs in the wire encoding,     *)
(* leadership of the requirer moves, and what each handler run read is on  *)
(* record                                                                  *)

InitReestablish ==
    /\ InitIdem
    /\ variant = "app"

NextReestablish ==
    \/ IPA_relation_created
    \/ IPA_relation_changed
    \/ IPA_relation_broken
    \/ \E t \in WireTexts : ForeignData(t)
    \/ \E u \in UnitNames : RequirerLeaderChange(u)
    \/ \E u \in UnitNames : IPA_handle_upgrade_or_leader(u)

SpecReestablish == InitReestablish /\ [][NextReestablish]_vars

(* C30 as stated: per-app requirer: in a relation established after a      *)
(* revocation, the first relation event handling that finds a URL          *)
(* published (no handler run of this relation has read one before) emits   *)
(* ready, also for the URL announced before the revocation.                *)
C30_ReadyAfterReestablish ==
    [][ (variant = "app" /\ IPA_relation_changed
         /\ seen_app = NoText /\ app_data.data \in WireTexts)
        => emitted' = <<Note("ready", "", "")>> ]_vars

----------------------------------------------------------------------------
(* What the requirer tells its charm: every URL a provider may store, the  *)
(* empty one included, foreign writes, and the requirer's relation events, *)
(* with the notifications for this unit kept on record                     *)

(* the text of an entry for this unit whose url is YAML null *)
NullUrlText == <<Line(0, this_unit_name, ""), Line(2, "url", None)>>

InitNotify ==
    /\ track = TRUE
    /\ InitState
    /\ port = 80

NextNotify ==
    \/ \E u \in UnitNames, x \in Urls \cup {EmptyUrl} : IPU_publish_url(TheRel, leader, u, x)
    \/ IPU_wipe_ingress_data(TheRel, leader)
    \/ IPU_relation_created
    \/ IPU_relation_changed
    \/ \E view \in HookViews : IPU_relation_broken(view)
    \/ \E t \in CorruptTexts \cup {NullUrlText} : ForeignIngress(TheRel, t)
    \/ IPA_relation_created
    \/ IPA_relation_changed
    \/ IPA_relation_broken
    \/ \E t \in CorruptJson \cup WireTexts \cup {ProviderData(EmptyUrl)} : ForeignData(t)

SpecNotify == InitNotify /\ [][NextNotify]_vars

(* the positions of a notification kind in a sequence *)
At(seq, kind) == {i \in 1..Len(seq) : seq[i].kind = kind}

(* C31 as stated: whenever a requirer emits a ready notification for its   *)
(* own identity (ready per-app, ready_for_unit per-unit), is_ready() is    *)
(* true at that moment, and per-unit the URL the notification carries is   *)
(* the url property.                                                       *)
C31_ReadyMeansIsReady ==
    [][ emitted' # <<>> =>
          /\ \A view \in HookViews : \A i \in At(emitted', "ready_for_unit") :
                IPU_handled(view) =>
                    /\ IPU_is_ready(view) = [exc |-> "", val |-> TRUE]
                    /\ emitted'[i].url = url(view).val
          /\ (IPU_relation_created /\ At(emitted', "ready_for_unit") # {})
                => IPU_is_ready("known")' = [exc |-> "", val |-> TRUE]
          /\ (IPA_relation_changed /\ At(emitted', "ready") # {}) => IPA_is_ready ]_vars

(* the part of C31 the code keeps: the same for every notification whose   *)
(* URL is a non-empty string, and the URL carried is always the url        *)
(* property                                                                *)
C31_ReadyNonEmptyMeansIsReady ==
    [][ emitted' # <<>> =>
          /\ \A view \in HookViews : \A i \in At(emitted', "ready_for_unit") :
                IPU_handled(view) =>
                    /\ bool(emitted'[i].url)
                          => IPU_is_ready(view) = [exc |-> "", val |-> TRUE]
                    /\ emitted'[i].url = url(view).val
          /\ (IPU_relation_created /\ At(emitted', "ready_for_unit") # {})
                => IPU_is_ready("known")' = [exc |-> "", val |-> TRUE]
          /\ (IPA_relation_changed /\ At(emitted', "ready") # {}) => IPA_is_ready ]_vars

(* what stood before the i-th notification of the step *)
ToldBefore(i) == ToldAfter(told, SubSeq(emitted', 1, i - 1), 1)

(* the mapping the handler run starts from holds a null URL for this unit *)
NullStored == this_unit_name \in DOMAIN previous_urls /\ previous_urls[this_unit_name] = None

(* C32 (as amended): in 'only-this-unit' or 'both' mode, as long as the    *)
(* stored mapping holds no null URL for this unit, revoked_for_unit is     *)
(* emitted only while a ready_for_unit stands (one was emitted and no      *)
(* revoked_for_unit since); and always, a ready_for_unit never repeats the *)
(* URL of the ready_for_unit that stands.                                  *)
C32_AlternationNoNull ==
    [][ (emitted' # <<>> /\ listen_to \in {"only-this-unit", "both"}) =>
          /\ \A i \in At(emitted', "revoked_for_unit") :
                ~NullStored => ToldBefore(i) # Nothing
          /\ \A i \in At(emitted', "ready_for_unit") :
                ToldBefore(i) # emitted'[i].url ]_vars

(* a ready_for_unit stood, and this run revoked it *)
C32_Witness ==
    /\ variant = "unit" /\ listen_to \in {"only-this-unit", "both"}
    /\ At(emitted, "revoked_for_unit") # {}
    /\ bool(Get(last.prev, this_unit_name))
    /\ told = Nothing

(* C32 as stated: the same, whatever the stored mapping holds *)
C32_Alternation ==
    [][ (emitted' # <<>> /\ listen_to \in {"only-this-unit", "both"}) =>
          /\ \A i \in At(emitted', "revoked_for_unit") : ToldBefore(i) # Nothing
          /\ \A i \in At(emitted', "ready_for_unit") :
                ToldBefore(i) # emitted'[i].url ]_vars

====
